---- MODULE Spec2Model ----
(***************************************************************************)
(* yatadis: Terraform state -> Ansible dynamic inventory.                  *)
(*                                                                         *)
(* The repository holds two implementations of the same pipeline:          *)
(*   - src/yatadis.py          the legacy script (resources only),         *)
(*   - src/yatadis/yatadis.py  the package (resources and outputs, the     *)
(*                             console entry point yatadis.yatadis:main).  *)
(* Both are modelled.  Definitions named legacy_* model the script; the    *)
(* other code definitions model the package.                               *)
(*                                                                         *)
(* Text is modelled as a sequence of symbols.  A symbol is either one of   *)
(* the characters the code inspects (",", "=", " ", "\n") or a word (a     *)
(* run of characters none of which the code inspects), so splitting and    *)
(* trimming act on symbols exactly as they act on characters.              *)
(*                                                                         *)
(* Rendering a jinja2 template is external: its result for a record is an  *)
(* input, drawn when the code renders it.                                  *)
(***************************************************************************)
EXTENDS Integers, Sequences, FiniteSets, TLC

VARIABLES
  entry,        \* which code is invoked (see Entries)
  tf_state,     \* the input document: a sequence of modules
  mi,           \* index of the module the loop of process_tfstate is at
  ri,           \* index of the next resource of that module
  groups,       \* dict group name -> [hosts |-> sequence of inventory names]
  hosts,        \* dict inventory name -> host_vars
  pc,           \* "running" | "processed" | "returned" | "done" | "crashed"
  err,          \* the error that ended the run ("" when none)
  printed,      \* whether print(json.dumps(ansible_data)) was executed
  ansible_data, \* the document main() prints
  processed,    \* history: the records taken up so far, with what the templates
                \* rendered for them (rendered: how many templates were rendered)
  partials,     \* the arguments of a direct call of merge_groups / merge_hosts
  query,        \* what main was asked: "" (not yet), "list", "none" or a host name
  flatmap,      \* argument of flatmap_expand
  key,          \* argument of flatmap_expand
  expanded,     \* result of flatmap_expand
  resource_dict,\* the objects of a raw resource entry: the entry dict itself, the
                \* dict under its key 'primary', the dict under 'attributes' of that
  resource      \* the Resource built from it

vars == << entry, tf_state, mi, ri, groups, hosts, pc, err, printed,
           ansible_data, processed, partials, query, flatmap, key, expanded,
           resource_dict, resource >>

pipeline_vars == << entry, tf_state, mi, ri, groups, hosts, pc, err, printed,
                    ansible_data, processed, partials, query >>

expand_vars == << flatmap, key, expanded >>

enrich_vars == << resource_dict, resource >>

(***************************************************************************)
(* Bounds                                                                  *)
(***************************************************************************)
MaxModules == 2
MaxRecords == 3
MaxOutputs == 1

(***************************************************************************)
(* Dictionaries                                                            *)
(***************************************************************************)
EmptyDict == << >>

Put(d, k, v) == [x \in (DOMAIN d) \cup {k} |-> IF x = k THEN v ELSE d[x]]

Last(s) == s[Len(s)]

(***************************************************************************)
(* Text                                                                    *)
(***************************************************************************)
Whitespace == {" ", "\n"}

RECURSIVE lstrip(_)
lstrip(s) ==
  IF s # << >> /\ Head(s) \in Whitespace THEN lstrip(Tail(s)) ELSE s

RECURSIVE rstrip(_)
rstrip(s) ==
  IF s # << >> /\ Last(s) \in Whitespace
  THEN rstrip(SubSeq(s, 1, Len(s) - 1)) ELSE s

\* str.strip()
strip(s) == rstrip(lstrip(s))

\* re.split(',\s*', s): cut at every comma together with the whitespace that
\* follows it; whitespace before a comma stays in the piece, and empty pieces
\* are kept ('' splits into ['']).
RECURSIVE re_split_comma(_, _)
re_split_comma(s, piece) ==
  IF s = << >> THEN << piece >>
  ELSE IF Head(s) = "," THEN << piece >> \o re_split_comma(lstrip(Tail(s)), << >>)
  ELSE re_split_comma(Tail(s), Append(piece, Head(s)))

\* the leading whitespace of s holds a newline
RECURSIVE newline_ahead(_)
newline_ahead(s) ==
  s # << >> /\ Head(s) \in Whitespace /\ (Head(s) = "\n" \/ newline_ahead(Tail(s)))

\* re.split('\s*\n\s*', s): cut at every run of whitespace that holds a
\* newline, the whole run being the separator; whitespace without a newline
\* stays in the piece, and empty pieces are kept ('' splits into ['']).
RECURSIVE re_split_newline(_, _)
re_split_newline(s, piece) ==
  IF s = << >> THEN << piece >>
  ELSE IF newline_ahead(s) THEN << piece >> \o re_split_newline(lstrip(s), << >>)
  ELSE re_split_newline(Tail(s), Append(piece, Head(s)))

\* str.split(sep): cut at every occurrence of sep, empty pieces kept.
RECURSIVE str_split(_, _, _)
str_split(s, sep, piece) ==
  IF s = << >> THEN << piece >>
  ELSE IF Head(s) = sep THEN << piece >> \o str_split(Tail(s), sep, << >>)
  ELSE str_split(Tail(s), sep, Append(piece, Head(s)))

(***************************************************************************)
(* What the templates may render (inputs)                                  *)
(***************************************************************************)
\* "UNDEF" stands for jinja2 raising UndefinedError; every other value is the
\* rendered string.  "true" stands for any string other than "True"/"False".
FilterResults == {"True", "False", "true", "UNDEF"}

InventoryNames == {"web1", "web2"}

\* "b, a" and "a,_meta,a"
GroupsTexts == { << "b", ",", " ", "a" >>, << "a", ",", "_meta", ",", "a" >> }

\* "k=v", "", "novalue" and "k=v=w"
HostVarsTexts == { << "k", "=", "v" >>, << >>, << "novalue" >>,
                   << "k", "=", "v", "=", "w" >> }

HostQueries == InventoryNames \cup {"ghost"}

\* Which of the three templates rendered after the filter raises jinja2's
\* UndefinedError for a record ("none": all of them render).
UndefinedIn == {"none", "name", "groups", "host_vars"}

(***************************************************************************)
(* src/yatadis.py: the loop body of process_tfstate                        *)
(***************************************************************************)
\* legacy_filter_decision with the raise of line 67 left out: whatever is not
\* "True" is skipped
legacy_filter_decision_lenient(filter_value) ==
  IF filter_value # "True" THEN "skip" ELSE "include"

\* lines 64-67: what the rendered filter value decides
legacy_filter_decision(filter_value) ==
  IF filter_value = "False" THEN "skip"
  ELSE IF filter_value # "True" THEN "raise"
  ELSE "include"

\* legacy_group_append with insert(0, ...) in place of append
legacy_group_prepend(gs, group_name, inventory_name) ==
  LET g == IF group_name \in DOMAIN gs THEN gs ELSE Put(gs, group_name, [hosts |-> << >>])
  IN  [g EXCEPT ![group_name] = [hosts |-> << inventory_name >> \o g[group_name].hosts]]

\* lines 73-77: one group name of a record
legacy_group_append(gs, group_name, inventory_name) ==
  LET g == IF group_name \in DOMAIN gs THEN gs ELSE Put(gs, group_name, [hosts |-> << >>])
  IN  [g EXCEPT ![group_name] = [hosts |-> Append(g[group_name].hosts, inventory_name)]]

\* lines 72-77: for group_name in group_names
RECURSIVE legacy_add_to_groups(_, _, _)
legacy_add_to_groups(gs, group_names, inventory_name) ==
  IF group_names = << >> THEN gs
  ELSE legacy_add_to_groups(legacy_group_append(gs, Head(group_names), inventory_name),
                            Tail(group_names), inventory_name)

\* lines 81-87: one item of the rendered host-vars text.
\* 'key, value = key_value.split("=")' raises ValueError unless the item holds
\* exactly one "=".
legacy_host_var(host_vars, key_value) ==
  LET kv == strip(key_value)
      parts == str_split(kv, "=", << >>)
  IN  IF kv = << >> THEN [ok |-> TRUE, host_vars |-> host_vars]
      ELSE IF Len(parts) # 2 THEN [ok |-> FALSE, host_vars |-> host_vars]
      ELSE [ok |-> TRUE, host_vars |-> Put(host_vars, strip(parts[1]), strip(parts[2]))]

\* lines 80-88: for key_value in host_var_key_values
RECURSIVE legacy_host_vars(_, _)
legacy_host_vars(host_vars, key_values) ==
  IF key_values = << >> THEN [ok |-> TRUE, host_vars |-> host_vars]
  ELSE LET r == legacy_host_var(host_vars, Head(key_values))
       IN  IF r.ok THEN legacy_host_vars(r.host_vars, Tail(key_values)) ELSE r

\* legacy_register_host without the exit of line 92: a duplicate name replaces
\* the entry and the run goes on
legacy_register_host_overwrite(hs, inventory_name, host_vars) ==
  [ok |-> TRUE, hosts |-> Put(hs, inventory_name, host_vars)]

\* lines 89-92: register the record under its inventory name, or exit
legacy_register_host(hs, inventory_name, host_vars) ==
  IF inventory_name \notin DOMAIN hs
  THEN [ok |-> TRUE, hosts |-> Put(hs, inventory_name, host_vars)]
  ELSE [ok |-> FALSE, hosts |-> hs]

\* lines 56-92: the body of 'for resource_name in resources' for one resource,
\* given what the four templates render for it.  status is "skip" (continue),
\* "ok" (fell through to the next iteration) or the exception that ends the run.
\* No render call is guarded, so an UndefinedError of any template ends the
\* run where it is raised: at line 63, 68, 70 or 78 (the groups of lines
\* 72-77 are already appended when the host-vars template is rendered).
legacy_process_resource(gs, hs, filter_value, undefined, inventory_name, groups_text, host_vars_text) ==
  LET decision == legacy_filter_decision(filter_value)
      group_names == re_split_comma(groups_text, << >>)
      gs2 == legacy_add_to_groups(gs, group_names, inventory_name)
      hv == legacy_host_vars(EmptyDict, re_split_comma(host_vars_text, << >>))
      reg == legacy_register_host(hs, inventory_name, hv.host_vars)
      none == [groups |-> gs, hosts |-> hs, group_names |-> << >>, host_vars |-> EmptyDict]
  IN  IF filter_value = "UNDEF" THEN [status |-> "UndefinedError"] @@ none
      ELSE IF decision = "skip" THEN [status |-> "skip"] @@ none
      ELSE IF decision = "raise" THEN [status |-> "FilterValueError"] @@ none
      ELSE IF undefined \in {"name", "groups"} THEN [status |-> "UndefinedError"] @@ none
      ELSE IF undefined = "host_vars"
        THEN [status |-> "UndefinedError", groups |-> gs2, hosts |-> hs,
              group_names |-> group_names, host_vars |-> EmptyDict]
      ELSE IF ~hv.ok
        THEN [status |-> "HostVarsValueError", groups |-> gs2, hosts |-> hs,
              group_names |-> group_names, host_vars |-> hv.host_vars]
      ELSE IF ~reg.ok
        THEN [status |-> "DuplicateInventoryName", groups |-> gs2, hosts |-> hs,
              group_names |-> group_names, host_vars |-> hv.host_vars]
      ELSE [status |-> "ok", groups |-> gs2, hosts |-> reg.hosts,
            group_names |-> group_names, host_vars |-> hv.host_vars]

(***************************************************************************)
(* list_groups and get_host (the same text in both implementations)        *)
(***************************************************************************)
MetaKey == << "_meta" >>

\* list_groups with a fresh dict holding '_meta' alone
list_groups_meta_only(gs, hs) == Put(EmptyDict, MetaKey, [hostvars |-> hs])

\* list_with_meta is the groups dict itself, with '_meta' stored into it
list_groups(gs, hs) == Put(gs, MetaKey, [hostvars |-> hs])

\* get_host with setdefault in place of get: an unknown name is stored
get_host_setdefault(hs, inventory_name) ==
  [result |-> IF inventory_name \in DOMAIN hs THEN hs[inventory_name] ELSE EmptyDict,
   hosts  |-> IF inventory_name \in DOMAIN hs THEN hs ELSE Put(hs, inventory_name, EmptyDict)]

\* tf_state_data['hosts'].get(inventory_name, {}): the value returned, and
\* the hosts dict after the call (dict.get stores nothing)
get_host(hs, inventory_name) ==
  [result |-> IF inventory_name \in DOMAIN hs THEN hs[inventory_name] ELSE EmptyDict,
   hosts  |-> hs]

(***************************************************************************)
(* src/yatadis/yatadis.py                                                  *)
(*                                                                         *)
(* CPython rejects this file when it compiles it ("'continue' not properly *)
(* in loop", line 192), so main() never starts.  Read statement by         *)
(* statement, the functions behave as modelled below; the entries "item"   *)
(* and "merge" call them directly with arguments drawn from bounded sets.  *)
(***************************************************************************)
\* lines 164-179.  The first output raises NameError at line 168 (neither
\* Output nor item_name is defined), the first resource raises NameError at
\* line 174 (item_name is not defined), and a document without any item
\* reaches line 178, where output_groups was never assigned.
RECURSIVE process_tfstate(_)
process_tfstate(modules) ==
  IF modules = << >> THEN "UnboundLocalError:178"
  ELSE IF Head(modules).outputs > 0 THEN "NameError:168"
  ELSE IF Head(modules).resources > 0 THEN "NameError:174"
  ELSE process_tfstate(Tail(modules))

\* lines 191-194: what the rendered filter value decides.  "continue" stands
\* for the continue statement of line 192, which no loop encloses.
filter_decision(filter_value) ==
  IF filter_value = "False" THEN "continue"
  ELSE IF filter_value # "True" THEN "raise"
  ELSE "include"

\* lines 182-237, given what the templates render for the item.  The result
\* is the exception that ends the call: the function has no path that
\* returns.  With the filter "True" the inventory name is rendered (line 196)
\* and line 201 then reads the name resource, which is neither a parameter
\* nor a global, so lines 205-237 are never executed.  An UndefinedError of
\* the filter or of the name template is turned into sys.exit (190, 198).
process_item_with_templates(filter_value, undefined, inventory_name, groups_text, host_vars_text) ==
  LET decision == filter_decision(filter_value)
  IN  IF filter_value = "UNDEF" THEN [status |-> "TemplateError", returned |-> FALSE]
      ELSE IF decision = "continue" THEN [status |-> "SyntaxError:192", returned |-> FALSE]
      ELSE IF decision = "raise" THEN [status |-> "FilterValueError", returned |-> FALSE]
      ELSE IF undefined = "name" THEN [status |-> "TemplateError", returned |-> FALSE]
      ELSE [status |-> "NameError:201", returned |-> FALSE]

\* merge_host without the assignment of line 244: the name is not stored
merge_host_dropping(hs, hosts_to_merge, inventory_name) ==
  IF inventory_name \notin DOMAIN hs
  THEN [ok |-> TRUE, hosts |-> hs]
  ELSE [ok |-> FALSE, hosts |-> hs]

\* lines 242-246: one inventory name of one hosts dict
merge_host(hs, hosts_to_merge, inventory_name) ==
  IF inventory_name \notin DOMAIN hs
  THEN [ok |-> TRUE, hosts |-> Put(hs, inventory_name, hosts_to_merge[inventory_name])]
  ELSE [ok |-> FALSE, hosts |-> hs]

\* lines 242-246: for inventory_name in hosts_to_merge.keys()
RECURSIVE merge_hosts_of(_, _, _)
merge_hosts_of(hs, hosts_to_merge, names) ==
  IF names = {} THEN [ok |-> TRUE, hosts |-> hs]
  ELSE LET n == CHOOSE x \in names : TRUE
           r == merge_host(hs, hosts_to_merge, n)
       IN  IF r.ok THEN merge_hosts_of(r.hosts, hosts_to_merge, names \ {n}) ELSE r

\* lines 239-247: merge_hosts(*hosts_list), started from hs = {}
RECURSIVE merge_hosts(_, _)
merge_hosts(hs, hosts_list) ==
  IF hosts_list = << >> THEN [ok |-> TRUE, hosts |-> hs]
  ELSE LET r == merge_hosts_of(hs, Head(hosts_list), DOMAIN Head(hosts_list))
       IN  IF r.ok THEN merge_hosts(r.hosts, Tail(hosts_list)) ELSE r

\* lines 253-262: one group of one groups dict.  A group is a dict; 'hosts'
\* is the only key the merge knows.
merge_group(gs, group_name, group) ==
  IF (DOMAIN group) \ {"hosts"} # {} THEN [ok |-> FALSE, groups |-> gs]
  ELSE IF "hosts" \notin DOMAIN group THEN [ok |-> TRUE, groups |-> gs]
  ELSE LET g == IF group_name \in DOMAIN gs THEN gs
                ELSE Put(gs, group_name, [hosts |-> << >>])
       IN  [ok |-> TRUE,
            groups |-> [g EXCEPT ![group_name] = [hosts |-> g[group_name].hosts \o group.hosts]]]

\* lines 252-262: for group_name in groups_to_merge.keys()
RECURSIVE merge_groups_of(_, _, _)
merge_groups_of(gs, groups_to_merge, names) ==
  IF names = {} THEN [ok |-> TRUE, groups |-> gs]
  ELSE LET n == CHOOSE x \in names : TRUE
           r == merge_group(gs, n, groups_to_merge[n])
       IN  IF r.ok THEN merge_groups_of(r.groups, groups_to_merge, names \ {n}) ELSE r

\* lines 249-263: merge_groups(*groups_list), started from gs = {}
RECURSIVE merge_groups(_, _)
merge_groups(gs, groups_list) ==
  IF groups_list = << >> THEN [ok |-> TRUE, groups |-> gs]
  ELSE LET r == merge_groups_of(gs, Head(groups_list), DOMAIN Head(groups_list))
       IN  IF r.ok THEN merge_groups(r.groups, Tail(groups_list)) ELSE r

(***************************************************************************)
(* Inputs of the runs                                                      *)
(***************************************************************************)
\* A module is given by the number of its outputs and of its resources.
ModuleShapes == [outputs : 0..MaxOutputs, resources : 0..MaxRecords]

RECURSIVE RecordCount(_)
RecordCount(modules) ==
  IF modules = << >> THEN 0
  ELSE Head(modules).outputs + Head(modules).resources + RecordCount(Tail(modules))

Documents ==
  { d \in UNION { [1..n -> ModuleShapes] : n \in 0..MaxModules } :
      RecordCount(d) <= MaxRecords }

\* The partial result of one record, as the loop body of the script builds it.
PartialOf(inventory_name, groups_text) ==
  [groups |-> legacy_add_to_groups(EmptyDict, re_split_comma(groups_text, << >>), inventory_name),
   hosts  |-> Put(EmptyDict, inventory_name, Put(EmptyDict, << "k" >>, << "v" >>))]

Partials ==
  { [groups |-> EmptyDict, hosts |-> EmptyDict],
    [groups |-> Put(EmptyDict, << "a" >>, [hosts |-> << "web1" >>, vars |-> << >>]),
     hosts  |-> EmptyDict] }
  \cup { PartialOf(n, t) : n \in InventoryNames, t \in GroupsTexts }

MaxPartials == 2

PartialLists == UNION { [1..n -> Partials] : n \in 0..MaxPartials }

Entries == {"legacy_main", "main", "item", "merge"}

(***************************************************************************)
(* Initial states                                                          *)
(***************************************************************************)
InitExpandIdle ==
  /\ flatmap = EmptyDict
  /\ key = << >>
  /\ expanded = [t |-> "unset"]

InitEnrichIdle ==
  /\ resource_dict = [entry |-> EmptyDict, primary |-> EmptyDict, attributes |-> EmptyDict]
  /\ resource = [t |-> "unset"]

Init ==
  /\ entry \in Entries
  /\ tf_state \in IF entry \in {"legacy_main", "main"} THEN Documents ELSE { << >> }
  /\ mi = 1
  /\ ri = 1
  /\ groups = EmptyDict
  /\ hosts = EmptyDict
  /\ pc = "running"
  /\ err = ""
  /\ printed = FALSE
  /\ ansible_data = EmptyDict
  /\ processed = << >>
  /\ partials = << >>
  /\ query = ""
  /\ InitExpandIdle
  /\ InitEnrichIdle

(***************************************************************************)
(* src/yatadis.py: main and process_tfstate                                *)
(***************************************************************************)
\* The record each render call is given, call by call (a record is named by
\* its position among the records taken up).  Lines 63, 68, 70 and 78 all pass
\* the dict 'resource' built at lines 59-62 for the resource at hand; a call
\* is made for every template up to the one that raises.
legacy_render_contexts(this, filter_value, undefined) ==
  LET calls == IF filter_value # "True" THEN 1
               ELSE IF undefined = "name" THEN 2
               ELSE IF undefined = "groups" THEN 3
               ELSE 4
  IN  [n \in 1..calls |-> this]

LegacyStep(filter_value, undefined, inventory_name, groups_text, host_vars_text) ==
  LET r == legacy_process_resource(groups, hosts, filter_value, undefined, inventory_name,
                                   groups_text, host_vars_text)
      going == r.status \in {"skip", "ok"}
  IN  /\ processed' = Append(processed,
           [filter |-> filter_value, undefined |-> undefined,
            inventory_name |-> inventory_name,
            groups_text |-> groups_text, host_vars_text |-> host_vars_text,
            rendered |-> IF filter_value = "UNDEF" THEN 0
                         ELSE IF filter_value # "True" \/ undefined = "name" THEN 1
                         ELSE IF undefined = "groups" THEN 2
                         ELSE IF undefined = "host_vars" THEN 3 ELSE 4,
            context |-> legacy_render_contexts(Len(processed) + 1, filter_value, undefined),
            group_names |-> r.group_names, host_vars |-> r.host_vars,
            status |-> r.status])
      /\ groups' = r.groups
      /\ hosts' = r.hosts
      /\ pc' = IF going THEN "running" ELSE "crashed"
      /\ err' = IF going THEN "" ELSE r.status
      /\ ri' = IF going THEN ri + 1 ELSE ri

\* one iteration of 'for resource_name in resources' (lines 56-92)
LegacyResource ==
  /\ entry = "legacy_main"
  /\ pc = "running"
  /\ mi <= Len(tf_state)
  /\ ri <= tf_state[mi].resources
  /\ \E filter_value \in FilterResults :
       IF filter_value = "True"
       THEN \/ \E inventory_name \in InventoryNames, groups_text \in GroupsTexts,
                  host_vars_text \in HostVarsTexts :
                 LegacyStep(filter_value, "none", inventory_name, groups_text, host_vars_text)
            \/ LegacyStep(filter_value, "name", "", << >>, << >>)
            \/ \E inventory_name \in InventoryNames :
                 LegacyStep(filter_value, "groups", inventory_name, << >>, << >>)
            \/ \E inventory_name \in InventoryNames, groups_text \in GroupsTexts :
                 LegacyStep(filter_value, "host_vars", inventory_name, groups_text, << >>)
       ELSE LegacyStep(filter_value, "none", "", << >>, << >>)
  /\ UNCHANGED << entry, tf_state, mi, printed, ansible_data, partials, query >>
  /\ UNCHANGED expand_vars
  /\ UNCHANGED enrich_vars

\* 'for module in tf_state["modules"]' moves on (lines 50-56)
LegacyNextModule ==
  /\ entry = "legacy_main"
  /\ pc = "running"
  /\ mi <= Len(tf_state)
  /\ ri > tf_state[mi].resources
  /\ mi' = mi + 1
  /\ ri' = 1
  /\ UNCHANGED << entry, tf_state, groups, hosts, pc, err, printed, ansible_data,
                  processed, partials, query >>
  /\ UNCHANGED expand_vars
  /\ UNCHANGED enrich_vars

\* process_tfstate returns tfstate_data (lines 93-95)
LegacyReturn ==
  /\ entry = "legacy_main"
  /\ pc = "running"
  /\ mi > Len(tf_state)
  /\ pc' = "processed"
  /\ UNCHANGED << entry, tf_state, mi, ri, groups, hosts, err, printed, ansible_data,
                  processed, partials, query >>
  /\ UNCHANGED expand_vars
  /\ UNCHANGED enrich_vars

\* main with --list (lines 113-114, 117); list_groups stores '_meta' into the
\* groups dict of tf_state_data itself
LegacyList ==
  /\ entry = "legacy_main"
  /\ pc = "processed"
  /\ ansible_data' = list_groups(groups, hosts)
  /\ groups' = ansible_data'
  /\ query' = "list"
  /\ printed' = TRUE
  /\ pc' = "done"
  /\ UNCHANGED << entry, tf_state, mi, ri, hosts, err, processed, partials >>
  /\ UNCHANGED expand_vars
  /\ UNCHANGED enrich_vars

\* main with --host NAME (lines 115-117)
LegacyHost ==
  /\ entry = "legacy_main"
  /\ pc = "processed"
  /\ \E inventory_name \in HostQueries :
       /\ ansible_data' = get_host(hosts, inventory_name).result
       /\ hosts' = get_host(hosts, inventory_name).hosts
       /\ query' = inventory_name
  /\ printed' = TRUE
  /\ pc' = "done"
  /\ UNCHANGED << entry, tf_state, mi, ri, groups, err, processed, partials >>
  /\ UNCHANGED expand_vars
  /\ UNCHANGED enrich_vars

\* main with neither --list nor --host: the initial {} is printed (lines 110, 117)
LegacyNoQuery ==
  /\ entry = "legacy_main"
  /\ pc = "processed"
  /\ query' = "none"
  /\ printed' = TRUE
  /\ pc' = "done"
  /\ UNCHANGED << entry, tf_state, mi, ri, groups, hosts, err, ansible_data,
                  processed, partials >>
  /\ UNCHANGED expand_vars
  /\ UNCHANGED enrich_vars

(***************************************************************************)
(* src/yatadis/yatadis.py: main, and direct calls of its functions         *)
(***************************************************************************)
\* main (lines 274-303): the file does not compile; read statement by
\* statement, process_tfstate (line 296) raises before it returns.
PackageMain ==
  /\ entry = "main"
  /\ pc = "running"
  /\ pc' = "crashed"
  /\ err' \in {"SyntaxError:192", process_tfstate(tf_state)}
  /\ UNCHANGED << entry, tf_state, mi, ri, groups, hosts, printed, ansible_data,
                  processed, partials, query >>
  /\ UNCHANGED expand_vars
  /\ UNCHANGED enrich_vars

\* The record each render call is given, call by call.  Lines 188 and 196 pass
\* the parameter 'item'; lines 201 and 212 name 'resource', which is bound
\* nowhere in process_item_with_templates, so evaluating the argument raises
\* NameError and neither the groups nor the host-vars template is rendered.
render_contexts(item, filter_value) ==
  IF filter_value # "True" THEN << item >> ELSE << item, item >>

PackageItemStep(filter_value, undefined, inventory_name, groups_text, host_vars_text) ==
  LET r == process_item_with_templates(filter_value, undefined, inventory_name, groups_text,
                                       host_vars_text)
  IN  /\ processed' = Append(processed,
           [filter |-> filter_value, undefined |-> undefined,
            inventory_name |-> inventory_name,
            groups_text |-> groups_text, host_vars_text |-> host_vars_text,
            rendered |-> IF filter_value = "UNDEF" THEN 0
                         ELSE IF filter_value = "True" /\ undefined = "none" THEN 2 ELSE 1,
            context |-> render_contexts(Len(processed) + 1, filter_value),
            group_names |-> << >>, host_vars |-> EmptyDict, status |-> r.status])
      /\ pc' = IF r.returned THEN "returned" ELSE "crashed"
      /\ err' = IF r.returned THEN "" ELSE r.status

\* a call of process_item_with_templates (lines 182-237)
PackageItem ==
  /\ entry = "item"
  /\ pc = "running"
  /\ \E filter_value \in FilterResults :
       IF filter_value = "True"
       THEN \/ \E inventory_name \in InventoryNames, groups_text \in GroupsTexts,
                  host_vars_text \in HostVarsTexts :
                 PackageItemStep(filter_value, "none", inventory_name, groups_text,
                                 host_vars_text)
            \/ PackageItemStep(filter_value, "name", "", << >>, << >>)
       ELSE PackageItemStep(filter_value, "none", "", << >>, << >>)
  /\ UNCHANGED << entry, tf_state, mi, ri, groups, hosts, printed, ansible_data, partials,
                  query >>
  /\ UNCHANGED expand_vars
  /\ UNCHANGED enrich_vars

\* merge_groups(...) and then merge_hosts(...) on the same partial results,
\* as lines 178-179 call them
PackageMerge ==
  /\ entry = "merge"
  /\ pc = "running"
  /\ \E ps \in PartialLists :
       LET g == merge_groups(EmptyDict, [i \in 1..Len(ps) |-> ps[i].groups])
           h == merge_hosts(EmptyDict, [i \in 1..Len(ps) |-> ps[i].hosts])
       IN  /\ partials' = ps
           /\ groups' = IF g.ok /\ h.ok THEN g.groups ELSE groups
           /\ hosts' = IF g.ok /\ h.ok THEN h.hosts ELSE hosts
           /\ pc' = IF g.ok /\ h.ok THEN "returned" ELSE "crashed"
           /\ err' = IF ~g.ok THEN "UnsupportedMergeKey"
                     ELSE IF ~h.ok THEN "DuplicateInventoryName" ELSE ""
  /\ UNCHANGED << entry, tf_state, mi, ri, printed, ansible_data, processed, query >>
  /\ UNCHANGED expand_vars
  /\ UNCHANGED enrich_vars

Next ==
  \/ LegacyResource
  \/ LegacyNextModule
  \/ LegacyReturn
  \/ LegacyList
  \/ LegacyHost
  \/ LegacyNoQuery
  \/ PackageMain
  \/ PackageItem
  \/ PackageMerge

Spec == Init /\ [][Next]_vars

(***************************************************************************)
(* src/yatadis/yatadis.py: flatmap_expand                                  *)
(*                                                                         *)
(* A key of a flat map is modelled as the sequence of its dot-separated    *)
(* segments ("k.0.x" is << "k", "0", "x" >>), so key + ".#" appends the    *)
(* segment "#", and k.startswith(key + ".") says that key is a proper      *)
(* prefix of k.  A result carries its Python type in the field t.          *)
(***************************************************************************)
None == [t |-> "None"]
ValueError == [t |-> "ValueError"]

\* k.startswith(prefix + '.')
startswith(k, prefix) == Len(k) > Len(prefix) /\ SubSeq(k, 1, Len(prefix)) = prefix

\* int(s) for the segments and values of the model; other strings raise
IntTable == { << "0", 0 >>, << "1", 1 >>, << "2", 2 >>, << "10", 10 >>, << "01", 1 >> }

is_int(s) == \E p \in IntTable : p[1] = s

int(s) == (CHOOSE p \in IntTable : p[1] = s)[2]

\* "%d" % n
str(n) == CASE n = 0 -> "0" [] n = 1 -> "1" [] n = 2 -> "2" [] n = 10 -> "10"

\* keys_list.sort() (line 349)
RECURSIVE sorted(_)
sorted(S) ==
  IF S = {} THEN << >>
  ELSE LET m == CHOOSE x \in S : \A y \in S : x <= y
       IN  << m >> \o sorted(S \ {m})

RECURSIVE flatmap_expand(_, _)
RECURSIVE flatmap_expand_array(_, _)
RECURSIVE flatmap_expand_dict(_, _)

\* flatmap_expand with the test for key + '.#' moved before the test for key
flatmap_expand_list_first(fm, k) ==
  IF Append(k, "#") \in DOMAIN fm THEN flatmap_expand_array(fm, k)
  ELSE IF k \in DOMAIN fm
  THEN IF fm[k] = "true" THEN [t |-> "bool", v |-> "True"]
       ELSE IF fm[k] = "false" THEN [t |-> "bool", v |-> "False"]
       ELSE [t |-> "str", v |-> fm[k]]
  ELSE IF \E x \in DOMAIN fm : startswith(x, k) THEN flatmap_expand_dict(fm, k)
  ELSE None

\* lines 308-325
flatmap_expand(fm, k) ==
  IF k \in DOMAIN fm
  THEN IF fm[k] = "true" THEN [t |-> "bool", v |-> "True"]
       ELSE IF fm[k] = "false" THEN [t |-> "bool", v |-> "False"]
       ELSE [t |-> "str", v |-> fm[k]]
  ELSE IF Append(k, "#") \in DOMAIN fm THEN flatmap_expand_array(fm, k)
  ELSE IF \E x \in DOMAIN fm : startswith(x, k) THEN flatmap_expand_dict(fm, k)
  ELSE None

\* lines 327-356.  int() of the declared count and of every segment found
\* raises ValueError when the text is not a number.
flatmap_expand_array(fm, prefix) ==
  LET segs == { x[Len(prefix) + 1] : x \in { y \in DOMAIN fm : startswith(y, prefix) } } \ {"#"}
      keys_list == sorted({ int(seg) : seg \in segs })
      result == [i \in 1..Len(keys_list) |->
                   flatmap_expand(fm, Append(prefix, str(keys_list[i])))]
  IN  IF ~is_int(fm[Append(prefix, "#")]) THEN ValueError
      ELSE IF \E seg \in segs : ~is_int(seg) THEN ValueError
      ELSE IF \E i \in 1..Len(keys_list) : result[i].t = "ValueError" THEN ValueError
      ELSE [t |-> "list", v |-> result]

\* lines 358-376; prefix is the key here, the source passes key + '.'
flatmap_expand_dict(fm, prefix) ==
  LET segs == { x[Len(prefix) + 1] : x \in { y \in DOMAIN fm : startswith(y, prefix) } } \ {"%"}
      result == [seg \in segs |-> flatmap_expand(fm, Append(prefix, seg))]
  IN  IF \E seg \in segs : result[seg].t = "ValueError" THEN ValueError
      ELSE [t |-> "dict", v |-> result]

\* lines 360-374 as the loop runs them, keys being flatmap.keys() in the order
\* the dict enumerates them: a key outside the prefix is passed over (361-362),
\* so is a segment already in result (368-369) and the segment "%" (371-372);
\* any other segment is expanded and stored (374).
RECURSIVE flatmap_expand_dict_loop(_, _, _, _)
flatmap_expand_dict_loop(fm, prefix, keys, result) ==
  IF keys = << >> THEN result
  ELSE LET k == Head(keys)
           seg == k[Len(prefix) + 1]
       IN  IF ~startswith(k, prefix) THEN flatmap_expand_dict_loop(fm, prefix, Tail(keys), result)
           ELSE IF seg \in DOMAIN result THEN flatmap_expand_dict_loop(fm, prefix, Tail(keys), result)
           ELSE IF seg = "%" THEN flatmap_expand_dict_loop(fm, prefix, Tail(keys), result)
           ELSE flatmap_expand_dict_loop(fm, prefix, Tail(keys),
                  Put(result, seg, flatmap_expand(fm, SubSeq(k, 1, Len(prefix) + 1))))

\* lines 358-376 for one enumeration order of the keys
flatmap_expand_dict_in_order(fm, prefix, keys) ==
  LET result == flatmap_expand_dict_loop(fm, prefix, keys, EmptyDict)
  IN  IF \E seg \in DOMAIN result : result[seg].t = "ValueError" THEN ValueError
      ELSE [t |-> "dict", v |-> result]

(***************************************************************************)
(* Calls of flatmap_expand on bounded flat maps                            *)
(***************************************************************************)
FlatKeys == { << "k" >>, << "k", "#" >>, << "k", "0" >>, << "k", "1" >>,
              << "k", "x" >>, << "k", "%" >>, << "k", "0", "x" >> }

FlatValues == {"true", "false", "2"}

FlatMaps == UNION { [ks -> FlatValues] : ks \in SUBSET FlatKeys }

ExpandKeys == { << "k" >>, << "k", "0" >>, << "j" >> }

InitExpand ==
  /\ entry = "expand"
  /\ tf_state = << >>
  /\ mi = 1
  /\ ri = 1
  /\ groups = EmptyDict
  /\ hosts = EmptyDict
  /\ pc = "running"
  /\ err = ""
  /\ printed = FALSE
  /\ ansible_data = EmptyDict
  /\ processed = << >>
  /\ partials = << >>
  /\ query = ""
  /\ flatmap \in FlatMaps
  /\ key \in ExpandKeys
  /\ expanded = [t |-> "unset"]
  /\ InitEnrichIdle

\* a call flatmap_expand(flatmap, key)
Expand ==
  /\ expanded.t = "unset"
  /\ expanded' = flatmap_expand(flatmap, key)
  /\ UNCHANGED << flatmap, key >>
  /\ UNCHANGED pipeline_vars
  /\ UNCHANGED enrich_vars

NextExpand == Expand

SpecExpand == InitExpand /\ [][NextExpand]_vars

\* Flat maps around a list under "k": the declared count, the indices 1, 2
\* and 10, the index 1 written "01", an element that is a map and a segment
\* that is no number.
ListKeys == { << "k", "#" >>, << "k", "1" >>, << "k", "01" >>, << "k", "2" >>,
              << "k", "10" >>, << "k", "2", "x" >>, << "k", "x" >> }

ListValues == {"2", "true"}

ListMaps == UNION { [ks -> ListValues] : ks \in SUBSET ListKeys }

InitExpandList ==
  /\ entry = "expand"
  /\ tf_state = << >>
  /\ mi = 1
  /\ ri = 1
  /\ groups = EmptyDict
  /\ hosts = EmptyDict
  /\ pc = "running"
  /\ err = ""
  /\ printed = FALSE
  /\ ansible_data = EmptyDict
  /\ processed = << >>
  /\ partials = << >>
  /\ query = ""
  /\ flatmap \in ListMaps
  /\ key \in { << "k" >>, << "k", "2" >> }
  /\ expanded = [t |-> "unset"]
  /\ InitEnrichIdle

SpecExpandList == InitExpandList /\ [][NextExpand]_vars

\* Flat maps around a map under "k": the size marker, a sub-key that is both
\* a key and a prefix, a sub-key holding a list, and a key outside "k".
MapKeys == { << "k", "%" >>, << "k", "x" >>, << "k", "x", "z" >>, << "k", "y", "#" >>,
             << "k", "y", "0" >>, << "j" >> }

MapMaps == UNION { [ks -> ListValues] : ks \in SUBSET MapKeys }

InitExpandMap ==
  /\ entry = "expand"
  /\ tf_state = << >>
  /\ mi = 1
  /\ ri = 1
  /\ groups = EmptyDict
  /\ hosts = EmptyDict
  /\ pc = "running"
  /\ err = ""
  /\ printed = FALSE
  /\ ansible_data = EmptyDict
  /\ processed = << >>
  /\ partials = << >>
  /\ query = ""
  /\ flatmap \in MapMaps
  /\ key \in { << "k" >>, << "k", "x" >> }
  /\ expanded = [t |-> "unset"]
  /\ InitEnrichIdle

SpecExpandMap == InitExpandMap /\ [][NextExpand]_vars

(***************************************************************************)
(* The groups of one record: lines 70-77 of src/yatadis.py and lines       *)
(* 201-210 of src/yatadis/yatadis.py (which no call reaches, see above),   *)
(* applied to every short text the groups template may render.             *)
(***************************************************************************)
MaxText == 3

TextSymbols == {"a", ",", " ", "\n"}

Texts == UNION { [1..n -> TextSymbols] : n \in 0..MaxText }

InitGroups ==
  /\ entry \in {"legacy_groups", "groups"}
  /\ tf_state = << >>
  /\ mi = 1
  /\ ri = 1
  /\ groups = EmptyDict
  /\ hosts = EmptyDict
  /\ pc = "running"
  /\ err = ""
  /\ printed = FALSE
  /\ ansible_data = EmptyDict
  /\ processed = << >>
  /\ partials = << >>
  /\ query = ""
  /\ InitExpandIdle
  /\ InitEnrichIdle

GroupsStep(inventory_name, groups_text, group_names) ==
  /\ processed' = << [filter |-> "True", undefined |-> "none",
                      inventory_name |-> inventory_name,
                      groups_text |-> groups_text, host_vars_text |-> << >>,
                      rendered |-> 3, context |-> << 1, 1, 1 >>,
                      group_names |-> group_names,
                      host_vars |-> EmptyDict, status |-> "ok"] >>
  /\ groups' = legacy_add_to_groups(groups, group_names, inventory_name)
  /\ pc' = "returned"
  /\ UNCHANGED << entry, tf_state, mi, ri, hosts, err, printed, ansible_data, partials,
                  query >>
  /\ UNCHANGED expand_vars
  /\ UNCHANGED enrich_vars

\* src/yatadis.py, lines 70-77
LegacyGroups ==
  /\ entry = "legacy_groups"
  /\ pc = "running"
  /\ \E inventory_name \in InventoryNames, groups_text \in Texts :
       GroupsStep(inventory_name, groups_text, re_split_comma(groups_text, << >>))

\* src/yatadis/yatadis.py, lines 201-210 (the loop is the script's, word for word)
PackageGroups ==
  /\ entry = "groups"
  /\ pc = "running"
  /\ \E inventory_name \in InventoryNames, groups_text \in Texts :
       GroupsStep(inventory_name, groups_text, re_split_newline(groups_text, << >>))

NextGroups ==
  \/ LegacyGroups
  \/ PackageGroups

SpecGroups == InitGroups /\ [][NextGroups]_vars

(***************************************************************************)
(* src/yatadis/yatadis.py: class Resource(dict)                            *)
(*                                                                         *)
(* A raw resource entry is three objects: the entry dict, the dict under   *)
(* its key 'primary' and the flat map under 'attributes' of that.  A dict  *)
(* refers to another by naming it, so that two dicts can hold the same     *)
(* object.                                                                 *)
(***************************************************************************)
\* line 387: set([attr.split('.')[0] for attr in attributes.keys()])
top_level(attributes) == { x[1] : x \in DOMAIN attributes }

\* lines 384-388.  self['primary'] is the object the raw entry holds under
\* 'primary' (dict(resource_dict) copies the top level only), so line 386 and
\* line 388 store into the raw entry's primary dict.  When flatmap_expand
\* raises for a prefix, the prefixes expanded before it are already stored;
\* a set is iterated in no particular order, so these may be any of the others.
_expand_primary_attributes(rd) ==
  LET attributes == rd.attributes
      prefixes == top_level(attributes)
      value == [prefix \in prefixes |-> flatmap_expand(attributes, << prefix >>)]
      raising == { prefix \in prefixes : value[prefix].t = "ValueError" }
  IN  IF raising = {}
      THEN { [raised |-> FALSE, primary |-> Put(rd.primary, "expanded_attributes", value)] }
      ELSE { [raised |-> TRUE,
              primary |-> Put(rd.primary, "expanded_attributes", [prefix \in done |-> value[prefix]])] :
             done \in SUBSET (prefixes \ raising) }

\* lines 379-382: the outcomes of Resource(resource_name, resource_dict): the
\* object built (or the exception) and the objects of the raw entry afterwards
Resource(resource_name, rd) ==
  LET self == Put(rd.entry, "name", resource_name)
  IN  { [resource |-> IF o.raised THEN ValueError ELSE [t |-> "Resource", v |-> self],
         resource_dict |-> [rd EXCEPT !.primary = o.primary]] :
        o \in _expand_primary_attributes(rd) }

AttributeKeys == { << "id" >>, << "tags", "#" >>, << "tags", "0" >>, << "meta", "%" >>,
                   << "meta", "x" >> }

AttributeMaps == UNION { [ks -> ListValues] : ks \in SUBSET AttributeKeys }

ResourceNames == {"web", "db"}

InitEnrich ==
  /\ entry = "Resource"
  /\ tf_state = << >>
  /\ mi = 1
  /\ ri = 1
  /\ groups = EmptyDict
  /\ hosts = EmptyDict
  /\ pc = "running"
  /\ err = ""
  /\ printed = FALSE
  /\ ansible_data = EmptyDict
  /\ processed = << >>
  /\ partials = << >>
  /\ query = ""
  /\ InitExpandIdle
  /\ \E attributes \in AttributeMaps :
       resource_dict = [entry |-> [type |-> "aws_instance", primary |-> "primary"],
                        primary |-> [id |-> "i-1", attributes |-> "attributes"],
                        attributes |-> attributes]
  /\ resource = [t |-> "unset"]

\* a call Resource(resource_name, resource_dict), as line 174 means it
Enrich ==
  /\ resource.t = "unset"
  /\ \E resource_name \in ResourceNames :
       \E o \in Resource(resource_name, resource_dict) :
         /\ resource' = o.resource
         /\ resource_dict' = o.resource_dict
  /\ UNCHANGED pipeline_vars
  /\ UNCHANGED expand_vars

NextEnrich == Enrich

SpecEnrich == InitEnrich /\ [][NextEnrich]_vars

(***************************************************************************)
(* Properties                                                              *)
(***************************************************************************)
Records == 1..Len(processed)

\* the filter template of record i rendered "True"
Included(i) == processed[i].filter = "True"

\* the run is over, one way or the other
Ended == pc \in {"processed", "returned", "done", "crashed"}

\* process_tfstate / the merge returned normally
Completed == pc \in {"processed", "returned", "done"}

\* the fatal conditions of the error taxonomy
FatalConditions == {"UndefinedError", "TemplateError", "FilterValueError",
                    "DuplicateInventoryName", "UnsupportedMergeKey"}

SameNamePair ==
  \/ \E i, j \in Records :
       i < j /\ Included(i) /\ Included(j)
       /\ processed[i].inventory_name = processed[j].inventory_name
  \/ \E i, j \in 1..Len(partials) :
       i < j /\ (DOMAIN partials[i].hosts) \cap (DOMAIN partials[j].hosts) # {}

\* C1: whenever two distinct records whose filter rendered "True" rendered the
\* same inventory name, the run has aborted with the duplicate-name error and
\* nothing was printed; hence a completed run never holds two such records.
UniqueInventoryNames ==
  SameNamePair =>
    /\ pc = "crashed"
    /\ err = "DuplicateInventoryName"
    /\ ~printed

\* The part of C1 the code does keep: with two such records the run never
\* completes and never prints.
NoOutputWithDuplicates == SameNamePair => (pc = "crashed" /\ ~printed)

\* C2: after a run that ended without a fatal condition, hosts holds exactly
\* one entry for each record whose filter rendered "True", under the record's
\* inventory name and holding the record's host_vars.
MergeCompleteness ==
  (entry \in {"legacy_main", "main"} /\ Ended /\ err \notin FatalConditions) =>
    /\ \A i \in Records :
         Included(i) =>
           /\ processed[i].inventory_name \in DOMAIN hosts
           /\ hosts[processed[i].inventory_name] = processed[i].host_vars
    /\ Cardinality(DOMAIN hosts) = Cardinality({ i \in Records : Included(i) })

\* The part of C2 the script keeps: when process_tfstate returns.
MergeCompletenessOnReturn ==
  (entry = "legacy_main" /\ Completed) =>
    /\ \A i \in Records :
         Included(i) =>
           /\ processed[i].inventory_name \in DOMAIN hosts
           /\ hosts[processed[i].inventory_name] = processed[i].host_vars
    /\ Cardinality(DOMAIN hosts) = Cardinality({ i \in Records : Included(i) })

\* the inventory name of a record, once for every time group name g occurs
\* among its group names, in that order
RECURSIVE Occurrences(_, _, _)
Occurrences(group_names, g, inventory_name) ==
  IF group_names = << >> THEN << >>
  ELSE (IF Head(group_names) = g THEN << inventory_name >> ELSE << >>)
       \o Occurrences(Tail(group_names), g, inventory_name)

\* the host sequence of group g after the first n records, in arrival order
RECURSIVE ArrivalOrder(_, _)
ArrivalOrder(g, n) ==
  IF n = 0 THEN << >>
  ELSE ArrivalOrder(g, n - 1)
       \o (IF Included(n)
           THEN Occurrences(processed[n].group_names, g, processed[n].inventory_name)
           ELSE << >>)

\* the host sequences of group g in the first n partial results, concatenated
RECURSIVE Concatenated(_, _)
Concatenated(g, n) ==
  IF n = 0 THEN << >>
  ELSE Concatenated(g, n - 1)
       \o (IF g \in DOMAIN partials[n].groups THEN partials[n].groups[g].hosts ELSE << >>)

\* C3: in the state process_tfstate returns, every group lists the inventory
\* names in record-arrival order and, within a record, in the order of the
\* record's group names; merging partial results concatenates their host
\* sequences, nothing reordered, dropped or de-duplicated.
GroupHostOrdering ==
  /\ (entry = "legacy_main" /\ pc = "processed") =>
       /\ \A g \in DOMAIN groups : groups[g].hosts = ArrivalOrder(g, Len(processed))
       /\ \A i \in Records : Included(i) =>
            \A k \in 1..Len(processed[i].group_names) :
              processed[i].group_names[k] \in DOMAIN groups
  /\ (entry = "merge" /\ pc = "returned") =>
       /\ \A g \in DOMAIN groups : groups[g].hosts = Concatenated(g, Len(partials))
       /\ \A i \in 1..Len(partials) : DOMAIN partials[i].groups \subseteq DOMAIN groups

\* a run of the script in which group "a" received hosts from two records, one
\* of them twice
GroupHostOrderingWitness ==
  /\ entry = "legacy_main"
  /\ pc = "processed"
  /\ << "a" >> \in DOMAIN groups
  /\ groups[<< "a" >>].hosts = << "web2", "web1", "web1" >>

\* C4: a record whose filter renders a string other than "True" and "False"
\* ends the run with the filter error: it is the last record taken up, it is
\* in no group and no host, and nothing is printed.
FilterContractViolation ==
  \A i \in Records :
    processed[i].filter \notin {"True", "False", "UNDEF"} =>
      /\ pc = "crashed"
      /\ err = "FilterValueError"
      /\ i = Len(processed)
      /\ processed[i].status = "FilterValueError"
      /\ ~printed
      /\ entry = "legacy_main" =>
           /\ DOMAIN hosts = { processed[j].inventory_name : j \in { x \in 1..(i - 1) : Included(x) } }
           /\ \A g \in DOMAIN groups : groups[g].hosts = ArrivalOrder(g, i - 1)

\* the script aborted on the filter of its third record, after including one
FilterContractViolationWitness ==
  /\ entry = "legacy_main"
  /\ Len(processed) = 3
  /\ processed[3].filter = "true"
  /\ hosts # EmptyDict
  /\ pc = "crashed"

\* C5: taking up a record whose filter renders "False" changes neither groups
\* nor hosts, and the run goes on (the call returns).
SkipLeavesStateUnchanged ==
  [][ (Len(processed') = Len(processed) + 1 /\ Last(processed').filter = "False")
        => (groups' = groups /\ hosts' = hosts /\ pc' \in {"running", "returned"}) ]_vars

\* the items of a rendered host-vars text
Items(text) == LET pieces == re_split_comma(text, << >>)
               IN  { strip(pieces[n]) : n \in 1..Len(pieces) } \ { << >> }

HasEq(item) == \E n \in 1..Len(item) : item[n] = "="

FirstEq(item) == CHOOSE n \in 1..Len(item) : item[n] = "=" /\ \A m \in 1..(n - 1) : item[m] # "="

\* C6: every non-blank host-vars item holding an "=" is accepted and split at
\* its first "=": the trimmed left part is the key, the trimmed rest (further
\* "=" included) the value.
HostVarsSplitOnFirstEq ==
  \A i \in Records :
    processed[i].rendered = 4 =>
      \A item \in Items(processed[i].host_vars_text) :
        HasEq(item) =>
          LET n == FirstEq(item)
              k == strip(SubSeq(item, 1, n - 1))
              v == strip(SubSeq(item, n + 1, Len(item)))
          IN  /\ processed[i].status # "HostVarsValueError"
              /\ k \in DOMAIN processed[i].host_vars
              /\ processed[i].host_vars[k] = v

\* C7: a non-blank host-vars item without "=" is not fatal: the variable named
\* by the trimmed item is set to the empty string and the run goes on.
MissingEqIsNotFatal ==
  \A i \in Records :
    processed[i].rendered = 4 =>
      \A item \in Items(processed[i].host_vars_text) :
        ~HasEq(item) =>
          /\ processed[i].status # "HostVarsValueError"
          /\ item \in DOMAIN processed[i].host_vars
          /\ processed[i].host_vars[item] = << >>

\* C8 as stated: --list prints every group of the state unchanged, whatever
\* its name, plus "_meta" holding the whole hosts mapping.
ListModeAnyGroupName ==
  [][ (query = "" /\ query' = "list") =>
        /\ DOMAIN ansible_data' = (DOMAIN groups) \cup {MetaKey}
        /\ \A g \in DOMAIN groups : ansible_data'[g] = groups[g]
        /\ ansible_data'[MetaKey] = [hostvars |-> hosts]
        /\ printed' ]_vars

\* C8 amended: the same for every group whose name is not "_meta"; the entry
\* "_meta" of the result is always {hostvars: hosts}.
ListMode ==
  [][ (query = "" /\ query' = "list") =>
        /\ DOMAIN ansible_data' = (DOMAIN groups) \cup {MetaKey}
        /\ \A g \in (DOMAIN groups) \ {MetaKey} : ansible_data'[g] = groups[g]
        /\ ansible_data'[MetaKey] = [hostvars |-> hosts]
        /\ printed' ]_vars

\* --list was answered for a state with a host, a group "a" and a group "_meta"
ListModeWitness ==
  /\ query = "list"
  /\ printed
  /\ hosts # EmptyDict
  /\ << "a" >> \in DOMAIN ansible_data
  /\ \E i \in Records : processed[i].status = "ok" /\ \E k \in 1..Len(processed[i].group_names) :
       processed[i].group_names[k] = MetaKey

\* C9: --host n prints the host_vars registered for n, or the empty mapping
\* when n was never registered; that is no error, and the state is unchanged.
HostMode ==
  [][ (query = "" /\ query' \in HostQueries) =>
        /\ ansible_data' = IF query' \in DOMAIN hosts THEN hosts[query'] ELSE EmptyDict
        /\ (\A i \in Records : processed[i].status = "ok" /\ processed[i].inventory_name = query'
              => ansible_data' = processed[i].host_vars)
        /\ hosts' = hosts
        /\ groups' = groups
        /\ pc' = "done"
        /\ err' = ""
        /\ printed' ]_vars

\* --host was answered for a name no record registered, in a state with hosts
HostModeWitness ==
  /\ query = "ghost"
  /\ printed
  /\ pc = "done"
  /\ ansible_data = EmptyDict
  /\ hosts # EmptyDict
  /\ \E n \in DOMAIN hosts : hosts[n] # EmptyDict

\* C10: when the key is itself a key of the flat map, the result is the
\* scalar of its value ("true"/"false" as booleans, any other string as it
\* is), whatever other keys begin with key + "."; a list or a mapping is
\* returned only for a key that is not in the map.
DirectScalarWins ==
  expanded.t # "unset" =>
    /\ key \in DOMAIN flatmap =>
         /\ expanded.t = (IF flatmap[key] \in {"true", "false"} THEN "bool" ELSE "str")
         /\ expanded.v = (IF flatmap[key] = "true" THEN "True"
                          ELSE IF flatmap[key] = "false" THEN "False" ELSE flatmap[key])
    /\ expanded.t \in {"list", "dict"} => key \notin DOMAIN flatmap

\* the key is in the map together with key + ".#" and an element, and a
\* boolean came back
DirectScalarWinsWitness ==
  /\ key = << "k" >>
  /\ << "k" >> \in DOMAIN flatmap
  /\ << "k", "#" >> \in DOMAIN flatmap
  /\ << "k", "0" >> \in DOMAIN flatmap
  /\ << "k", "x" >> \in DOMAIN flatmap
  /\ flatmap[<< "k" >>] = "false"
  /\ expanded = [t |-> "bool", v |-> "False"]

\* the first path segments found after key + "." among the keys of fm
FirstSegments(fm, k) == { x[Len(k) + 1] : x \in { y \in DOMAIN fm : startswith(y, k) } }

\* the distinct integer indices among them
Indices(fm, k) == { int(seg) : seg \in { x \in FirstSegments(fm, k) \ {"#"} : is_int(x) } }

\* the position of index x in ascending numeric order
Rank(S, x) == Cardinality({ y \in S : y < x }) + 1

\* C11: when the key is absent and key + ".#" is present, the result is a
\* sequence with one element per distinct integer index found after key + ".",
\* in ascending numeric order, element i being the expansion of key + "." + i,
\* whatever is stored under key + ".#".
ListExpansion ==
  (expanded.t # "unset" /\ key \notin DOMAIN flatmap /\ Append(key, "#") \in DOMAIN flatmap) =>
    /\ expanded.t = "list"
    /\ Len(expanded.v) = Cardinality(Indices(flatmap, key))
    /\ \A x \in Indices(flatmap, key) :
         expanded.v[Rank(Indices(flatmap, key), x)] = flatmap_expand(flatmap, Append(key, str(x)))

\* The part of C11 the code keeps: the same, for a declared count that is a
\* number and segments that are all numbers.
ListExpansionOfNumbers ==
  (/\ expanded.t # "unset" /\ key \notin DOMAIN flatmap /\ Append(key, "#") \in DOMAIN flatmap
   /\ is_int(flatmap[Append(key, "#")])
   /\ \A seg \in FirstSegments(flatmap, key) \ {"#"} : is_int(seg)
   /\ \A x \in Indices(flatmap, key) :
        flatmap_expand(flatmap, Append(key, str(x))).t # "ValueError") =>
    /\ expanded.t = "list"
    /\ Len(expanded.v) = Cardinality(Indices(flatmap, key))
    /\ \A x \in Indices(flatmap, key) :
         expanded.v[Rank(Indices(flatmap, key), x)] = flatmap_expand(flatmap, Append(key, str(x)))

\* a list of three elements came back for the indices 2, 10 and 1 ("01"),
\* the declared count being 2
ListExpansionOfNumbersWitness ==
  /\ key = << "k" >>
  /\ DOMAIN flatmap = { << "k", "#" >>, << "k", "01" >>, << "k", "2", "x" >>, << "k", "10" >> }
  /\ flatmap[<< "k", "#" >>] = "2"
  /\ flatmap[<< "k", "10" >>] = "true"
  /\ expanded.t = "list"
  /\ Len(expanded.v) = 3
  /\ expanded.v[1] = None
  /\ expanded.v[2].t = "dict"
  /\ expanded.v[3] = [t |-> "bool", v |-> "True"]

\* every order in which the keys of a flat map can be enumerated
RECURSIVE Enumerations(_)
Enumerations(S) ==
  IF S = {} THEN { << >> }
  ELSE UNION { { << x >> \o e : e \in Enumerations(S \ {x}) } : x \in S }

\* neither the key nor key + ".#" is a key, and some key begins with key + "."
MapCase ==
  /\ expanded.t # "unset"
  /\ key \notin DOMAIN flatmap
  /\ Append(key, "#") \notin DOMAIN flatmap
  /\ \E x \in DOMAIN flatmap : startswith(x, key)

\* C12: in that case the result is a mapping whose keys are exactly the next
\* path segments after key + "." other than "%", each mapped to the expansion
\* of key + "." + segment, whatever the order in which the keys of the flat
\* map are enumerated.
MapExpansion ==
  MapCase =>
    /\ expanded.t = "dict"
    /\ DOMAIN expanded.v = FirstSegments(flatmap, key) \ {"%"}
    /\ \A seg \in DOMAIN expanded.v :
         expanded.v[seg] = flatmap_expand(flatmap, Append(key, seg))
    /\ \A keys \in Enumerations(DOMAIN flatmap) :
         flatmap_expand_dict_in_order(flatmap, key, keys) = expanded

\* The part of C12 the code keeps: the same, when no sub-key holds a list that
\* flatmap_expand_array rejects; and the enumeration order never matters.
MapExpansionOfWellFormed ==
  MapCase =>
    /\ (\A seg \in FirstSegments(flatmap, key) \ {"%"} :
          flatmap_expand(flatmap, Append(key, seg)).t # "ValueError") =>
         /\ expanded.t = "dict"
         /\ DOMAIN expanded.v = FirstSegments(flatmap, key) \ {"%"}
         /\ \A seg \in DOMAIN expanded.v :
              expanded.v[seg] = flatmap_expand(flatmap, Append(key, seg))
    /\ \A keys \in Enumerations(DOMAIN flatmap) :
         flatmap_expand_dict_in_order(flatmap, key, keys) = expanded

\* a mapping with the sub-keys x (a scalar that is also a prefix) and y (a
\* list) came back, the size marker left out
MapExpansionOfWellFormedWitness ==
  /\ key = << "k" >>
  /\ DOMAIN flatmap = MapKeys
  /\ flatmap[<< "k", "y", "#" >>] = "2"
  /\ expanded.t = "dict"
  /\ DOMAIN expanded.v = {"x", "y"}
  /\ expanded.v["x"].t \in {"bool", "str"}
  /\ expanded.v["y"].t = "list"

\* the key is not a key of the flat map and no key begins with key + "."
NoMatch == key \notin DOMAIN flatmap /\ ~ \E x \in DOMAIN flatmap : startswith(x, key)

\* C13: the result is absent exactly when the key is not in the flat map and
\* no key begins with key + "."; in every other case a scalar, a sequence or
\* a mapping is returned.
AbsentKey ==
  expanded.t # "unset" =>
    /\ (expanded = None) <=> NoMatch
    /\ ~NoMatch => expanded.t \in {"bool", "str", "list", "dict"}

\* The part of C13 the code keeps: None is returned exactly in that case.
AbsentExactly == expanded.t # "unset" => ((expanded = None) <=> NoMatch)

\* None came back for a key beside which the flat map holds other keys
AbsentExactlyWitness ==
  /\ key = << "j" >>
  /\ << "k" >> \in DOMAIN flatmap
  /\ << "k", "0", "x" >> \in DOMAIN flatmap
  /\ expanded = None

\* a fatal condition occurs at record i: a template raises UndefinedError for
\* it, its filter renders neither "True" nor "False", or it renders the
\* inventory name of an earlier included record
FatalAt(i) ==
  \/ processed[i].filter = "UNDEF"
  \/ processed[i].filter \notin {"True", "False", "UNDEF"}
  \/ Included(i) /\ processed[i].undefined \in UndefinedIn \ {"none"}
  \/ /\ Included(i)
     /\ processed[i].undefined = "none"
     /\ \E j \in 1..(i - 1) :
          /\ Included(j)
          /\ processed[j].undefined = "none"
          /\ processed[j].inventory_name = processed[i].inventory_name

\* a fatal condition occurs in the merge of the partial results: a group with
\* a key other than hosts, or an inventory name in two of them
FatalInMerge ==
  \/ \E i \in 1..Len(partials) : \E g \in DOMAIN partials[i].groups :
       (DOMAIN partials[i].groups[g]) \ {"hosts"} # {}
  \/ \E i, j \in 1..Len(partials) :
       i < j /\ (DOMAIN partials[i].hosts) \cap (DOMAIN partials[j].hosts) # {}

\* C14: once a fatal condition has occurred the run is over at that record (no
\* later record is taken up) and nothing is or was printed; what is printed
\* comes from a run without any fatal condition.
NoPartialOutput ==
  /\ \A i \in Records : FatalAt(i) => (i = Len(processed) /\ pc = "crashed" /\ ~printed)
  /\ FatalInMerge => (pc = "crashed" /\ ~printed)
  /\ err \in FatalConditions => (pc = "crashed" /\ ~printed)
  /\ printed =>
       /\ err = ""
       /\ ~FatalInMerge
       /\ \A i \in Records : ~FatalAt(i) /\ processed[i].status \in {"skip", "ok"}

\* the script stopped at the second of three resources, which rendered the
\* name of the first; the groups of the first are in the state, nothing is
\* printed
NoPartialOutputWitness ==
  /\ entry = "legacy_main"
  /\ RecordCount(tf_state) = 3
  /\ Len(processed) = 2
  /\ processed[1].status = "ok"
  /\ processed[2].status = "DuplicateInventoryName"
  /\ FatalAt(2)
  /\ groups # EmptyDict
  /\ pc = "crashed"
  /\ ~printed

\* a group name as the claim wants it: not empty, no whitespace around it
Trimmed(name) == name # << >> /\ strip(name) = name

\* C15: the groups text of a record is split into trimmed, non-empty items:
\* no group with an empty or untrimmed name exists, every group name of a
\* record is trimmed, and a record whose groups text is blank has no group.
GroupNameSplitting ==
  /\ \A g \in DOMAIN groups : Trimmed(g)
  /\ \A i \in Records :
       processed[i].rendered >= 3 =>
         /\ \A n \in 1..Len(processed[i].group_names) : Trimmed(processed[i].group_names[n])
         /\ strip(processed[i].groups_text) = << >> => processed[i].group_names = << >>

\* The part of C15 both implementations keep: the separator itself, with the
\* whitespace after it, is in no group name.
SeparatorNotInName ==
  \A i \in Records :
    processed[i].rendered >= 3 =>
      \A n \in 1..Len(processed[i].group_names) :
        LET name == processed[i].group_names[n]
        IN  /\ entry \in {"legacy_main", "legacy_groups"} =>
                 /\ \A c \in 1..Len(name) : name[c] # ","
                 /\ n > 1 => lstrip(name) = name
            /\ entry = "groups" =>
                 /\ \A c \in 1..Len(name) : name[c] # "\n"
                 /\ n > 1 => lstrip(name) = name
                 /\ n < Len(processed[i].group_names) => rstrip(name) = name

\* the text "a,a" put its record into group "a" twice, and into no other
SeparatorNotInNameWitness ==
  /\ entry = "legacy_groups"
  /\ pc = "returned"
  /\ processed[1].groups_text = << "a", ",", "a" >>
  /\ DOMAIN groups = { << "a" >> }
  /\ Len(groups[<< "a" >>].hosts) = 2

\* C16: building a Resource leaves the raw entry exactly as it was: the entry
\* dict, its primary section and its attribute map.
EnricherDoesNotMutate ==
  [][ resource' # resource =>
        /\ resource_dict'.entry = resource_dict.entry
        /\ resource_dict'.primary = resource_dict.primary
        /\ resource_dict'.attributes = resource_dict.attributes ]_vars

\* The part of C16 the code keeps: the entry dict and the attribute map are
\* left alone, and the name is in the Resource only.
EnricherKeepsTopLevel ==
  [][ resource' # resource =>
        /\ resource_dict'.entry = resource_dict.entry
        /\ resource_dict'.attributes = resource_dict.attributes
        /\ "name" \notin DOMAIN resource_dict'.entry
        /\ resource'.t = "Resource" => resource'.v["name"] \in ResourceNames ]_vars

\* a Resource was built from an entry with a list and a map among its
\* attributes, and the expanded attributes are in the raw entry's primary dict
EnricherKeepsTopLevelWitness ==
  /\ resource.t = "Resource"
  /\ DOMAIN resource_dict.attributes = AttributeKeys
  /\ "expanded_attributes" \in DOMAIN resource_dict.primary
  /\ DOMAIN resource_dict.primary["expanded_attributes"] = {"id", "tags", "meta"}

\* C17: for a record that is classified (its filter renders "True" and no
\* template raises), all four templates are rendered with that record as
\* context, and what is registered under its inventory name comes from it.
PerRecordContext ==
  \A i \in Records :
    (Included(i) /\ processed[i].undefined = "none") =>
      /\ processed[i].context = << i, i, i, i >>
      /\ (processed[i].status = "ok" /\ query = "") =>
           /\ hosts[processed[i].inventory_name] = processed[i].host_vars
           /\ \A n \in 1..Len(processed[i].group_names) :
                \E h \in 1..Len(groups[processed[i].group_names[n]].hosts) :
                  groups[processed[i].group_names[n]].hosts[h] = processed[i].inventory_name

\* The part of C17 the script keeps.
PerRecordContextInScript ==
  entry = "legacy_main" =>
    \A i \in Records :
      (Included(i) /\ processed[i].undefined = "none") =>
        /\ processed[i].context = << i, i, i, i >>
        /\ processed[i].status = "ok" =>
             hosts[processed[i].inventory_name] = processed[i].host_vars

\* the script classified two resources, the second with host_vars of its own
PerRecordContextInScriptWitness ==
  /\ entry = "legacy_main"
  /\ Len(processed) = 2
  /\ processed[1].status = "ok"
  /\ processed[2].status = "ok"
  /\ processed[1].host_vars # processed[2].host_vars
  /\ processed[2].context = << 2, 2, 2, 2 >>

\* C18: in the state of a run that completed (process_tfstate or the merge
\* returned), every inventory name in the host sequence of a group is a key
\* of hosts.  After --list the entry "_meta" is the synthetic member, no group.
ReferentialIntegrity ==
  Completed =>
    \A g \in DOMAIN groups :
      \/ query = "list" /\ g = MetaKey
      \/ \A h \in 1..Len(groups[g].hosts) : groups[g].hosts[h] \in DOMAIN hosts

\* a completed run of the script: two resources registered and grouped, one
\* skipped
ReferentialIntegrityWitness ==
  /\ entry = "legacy_main"
  /\ pc = "processed"
  /\ Cardinality(DOMAIN hosts) = 2
  /\ << "a" >> \in DOMAIN groups
  /\ Len(groups[<< "a" >>].hosts) = 3
  /\ \E i \in Records : processed[i].status = "skip"

====
